---- MODULE Spec2Model ----
(***************************************************************************)
(* Sandbox layer of the agent backend: workspace path handling             *)
(* (core/sandbox/workspace_config.py), the HTTP file routes                *)
(* (core/sandbox/api.py), the local file adapter                           *)
(* and the subprocess runs of the local sandbox                            *)
(* (core/sandbox/providers/local_process.py), and the lazy sandbox         *)
(* lifecycle of a tool instance (core/sandbox/tool_base.py, sandbox.py).   *)
(*                                                                         *)
(* A path string is a sequence of characters; a character is a one-symbol  *)
(* string, so that prefix tests are made on characters, as str.startswith  *)
(* makes them, and not on path segments.                                   *)
(***************************************************************************)
EXTENDS Integers, Sequences, FiniteSets, TLC

VARIABLES
    provider,    \* PROVIDER / WorkspaceConfig.PROVIDER, fixed per deployment
    wcPath,      \* path argument of the workspace_config call under study
    wcProject,   \* project_id argument of that call
    wcResult,    \* the call made and what it returned (NoResult before)
    reqPath,     \* `path` parameter of the HTTP request being served
    reqProject,  \* project that owns the sandbox the request names
    apiResult,   \* route served, status answered, filesystem call issued
    db,          \* projects table: the `sandbox` column of each project row
    remote,      \* the container platform: state of each sandbox it knows
    numCreated,  \* sandboxes the platform has created so far
    project,     \* SandboxToolsBase.project_id of each tool instance
    sandbox,     \* SandboxToolsBase._sandbox, the cached handle
    sandboxId,   \* SandboxToolsBase._sandbox_id
    sandboxPass, \* SandboxToolsBase._sandbox_pass
    pc,          \* where each tool instance's _ensure_sandbox call stands
    entry,       \* _sandbox as the current (or last) call found it
    client,      \* local `client` of the call: TRUE when the DB client was got
    info,        \* local `sandbox_info` of the call, as read
    newId,       \* local `sandbox_id` of the call: id of the sandbox it created
    ops,         \* store and provider calls the call has made, in order
    outcome,     \* how the call ended: handle returned or error raised
    deleted,     \* sandbox ids for which delete_sandbox has returned True
    lastDelete,  \* the last delete_sandbox call made through the delete route
    normResult,  \* results of the successive api.normalize_path applications
    normFault,   \* the step of normalize_path that failed, and whether it raised
    venvs,       \* project ids whose venv directory holds pyvenv.cfg
    created,     \* how many times EnvBuilder.create ran for each project id
    call,        \* the exec / run_python call of each caller
    disk,        \* the directory tree under each workspace root
    fsHandle,    \* state of each local sandbox handle used for file calls
    fsCall,      \* the last call made on a handle, and what it returned
    stopEvent,   \* stop_event of pubsub_subscribe_and_listen: is it set
    listener     \* locals and position of pubsub_subscribe_and_listen

pathVars == <<wcPath, wcProject, wcResult>>
apiVars == <<reqPath, reqProject, apiResult>>
storeVars == <<db, remote, numCreated>>
toolVars == <<project, sandbox, sandboxId, sandboxPass>>
callVars == <<pc, entry, client, info, newId, ops, outcome>>
adminVars == <<deleted, lastDelete>>
lifeVars == <<storeVars, toolVars, callVars, adminVars>>
normVars == <<normResult, normFault>>
execVars == <<venvs, created, call>>
fsVars == <<disk, fsHandle, fsCall>>
subVars == <<stopEvent, listener>>
\* What the lifecycle leaves alone.
otherVars == <<provider, pathVars, apiVars, normVars, execVars, fsVars, subVars>>
vars == <<provider, pathVars, apiVars, lifeVars, normVars, execVars, fsVars, subVars>>

\* ------------------------------------------------------------------ bounds
MaxPathLen == 5
MaxReqTokens == 3
MaxSandboxes == 2
MaxCalls == 1
MaxSegments == 4
MaxDepth == 2
MaxEntries == 2
MaxBackoff == 4
MaxFailures == 3

\* ----------------------------------------------------------- configuration
Providers == {"daytona", "local_process"}

\* SANDBOX_WORKSPACE_ROOT of the deployment, trailing slash stripped.
WORKSPACE_ROOT == <<"/", "w">>

ProjectIds == {<<"p">>, <<"x", "p">>}

\* ------------------------------------------------------------ str helpers
StartsWith(s, pre) ==
    /\ Len(pre) <= Len(s)
    /\ SubSeq(s, 1, Len(pre)) = pre

Drop(s, n) == SubSeq(s, n + 1, Len(s))

RECURSIVE LStrip(_, _)
LStrip(s, c) == IF s # <<>> /\ s[1] = c THEN LStrip(Tail(s), c) ELSE s

RECURSIVE RStrip(_, _)
RStrip(s, c) ==
    IF s # <<>> /\ s[Len(s)] = c THEN RStrip(SubSeq(s, 1, Len(s) - 1), c) ELSE s

\* str.split('/') : the segments between slashes, empty ones included.
RECURSIVE SplitFrom(_, _, _)
SplitFrom(s, i, cur) ==
    IF i > Len(s) THEN <<cur>>
    ELSE IF s[i] = "/" THEN <<cur>> \o SplitFrom(s, i + 1, <<>>)
    ELSE SplitFrom(s, i + 1, Append(cur, s[i]))

Split(s) == SplitFrom(s, 1, <<>>)

\* '/'.join(parts)
RECURSIVE Join(_)
Join(parts) ==
    IF parts = <<>> THEN <<>>
    ELSE IF Len(parts) = 1 THEN parts[1]
    ELSE parts[1] \o <<"/">> \o Join(Tail(parts))

\* ------------------------------------------------------- pathlib.Path
\* Path(abs).resolve() of an absolute path on a tree without symbolic links:
\* empty and "." segments vanish, ".." removes the segment before it and
\* stays at the root when there is none.
RECURSIVE ResolveSegs(_, _)
ResolveSegs(parts, stack) ==
    IF parts = <<>> THEN stack
    ELSE LET h == parts[1] IN
         IF h = <<>> \/ h = <<".">> THEN ResolveSegs(Tail(parts), stack)
         ELSE IF h = <<".", ".">>
              THEN ResolveSegs(Tail(parts),
                               IF stack = <<>> THEN stack
                               ELSE SubSeq(stack, 1, Len(stack) - 1))
              ELSE ResolveSegs(Tail(parts), Append(stack, h))

PathResolveSegs(abs) == ResolveSegs(Split(abs), <<>>)

\* str(Path(abs).resolve())
PathResolve(abs) == <<"/">> \o Join(PathResolveSegs(abs))

\* ------------------------------------------------- WorkspaceConfig
get_project_workspace_path(project_id) == WORKSPACE_ROOT

get_project_directory_path(project_id) ==
    IF provider = "daytona"
    THEN WORKSPACE_ROOT \o <<"/">> \o project_id
    ELSE WORKSPACE_ROOT

wc_normalize_path(path, project_id) ==
    LET p1 == LStrip(path, "/")
        workspace_prefix == LStrip(WORKSPACE_ROOT, "/")
        p2 == IF StartsWith(p1, workspace_prefix)
              THEN LStrip(Drop(p1, Len(workspace_prefix)), "/")
              ELSE p1
        project_prefix == project_id \o <<"/">>
    IN IF StartsWith(p2, project_prefix) THEN Drop(p2, Len(project_prefix)) ELSE p2

resolve_absolute_path(relative_path, project_id) ==
    LET normalized == wc_normalize_path(relative_path, project_id)
        project_dir == get_project_directory_path(project_id)
    IN IF normalized # <<>> THEN project_dir \o <<"/">> \o normalized
       ELSE project_dir

\* The string comparison made by is_path_safe once both paths are resolved.
Contained(abs_str, dir_str) == StartsWith(abs_str, dir_str)

is_path_safe(path, project_id) ==
    LET abs_path == resolve_absolute_path(path, project_id)
        project_dir == get_project_directory_path(project_id)
    IN Contained(PathResolve(abs_path), PathResolve(project_dir))

\* ------------------------------------------------ api.normalize_path
\* The hexadecimal digits that occur in the request paths of the model.
HexDigits == {"0", "2", "e", "f"}

\* chr of the byte 0x<h1><h2> as urllib.parse.unquote yields it (UTF-8 with
\* errors='replace'): with these digits no byte >= 0x80 has a continuation
\* byte after it, so each one becomes U+FFFD.
ByteChar(h1, h2) ==
    IF h1 \in {"e", "f"} THEN "U+fffd"
    ELSE IF h1 = "0" THEN (IF h2 = "0" THEN "NUL" ELSE "x0" \o h2)
    ELSE CASE h2 = "0" -> " "
           [] h2 = "2" -> "\""
           [] h2 = "e" -> "."
           [] h2 = "f" -> "/"

\* urllib.parse.unquote: %XX with two hex digits is decoded, any other '%'
\* is kept.
RECURSIVE UnquoteFrom(_, _)
UnquoteFrom(s, i) ==
    IF i > Len(s) THEN <<>>
    ELSE IF /\ s[i] = "%"
            /\ i + 2 <= Len(s)
            /\ s[i + 1] \in HexDigits
            /\ s[i + 2] \in HexDigits
         THEN <<ByteChar(s[i + 1], s[i + 2])>> \o UnquoteFrom(s, i + 3)
         ELSE <<s[i]>> \o UnquoteFrom(s, i + 1)

unquote(s) == UnquoteFrom(s, 1)

\* chr(int(hex_val, 16)) of replace_unicode.
CodePoint(a, b, c, d) ==
    IF a = "0" /\ b = "0" /\ c \in {"0", "2"} THEN ByteChar(c, d)
    ELSE "U+" \o a \o b \o c \o d

\* unicode_pattern.sub(replace_unicode, decoded_path) for \\u([0-9a-fA-F]{4})
RECURSIVE UnicodeFrom(_, _)
UnicodeFrom(s, i) ==
    IF i > Len(s) THEN <<>>
    ELSE IF /\ s[i] = "\\"
            /\ i + 5 <= Len(s)
            /\ s[i + 1] = "u"
            /\ \A k \in 2..5 : s[i + k] \in HexDigits
         THEN <<CodePoint(s[i + 2], s[i + 3], s[i + 4], s[i + 5])>>
                  \o UnicodeFrom(s, i + 6)
         ELSE <<s[i]>> \o UnicodeFrom(s, i + 1)

replace_unicode_escapes(s) == UnicodeFrom(s, 1)

\* path.replace('\\', '/')
ReplaceBackslash(s) == [i \in 1..Len(s) |-> IF s[i] = "\\" THEN "/" ELSE s[i]]

\* [part for part in normalized_path.split('/') if part]
NonEmptyParts(s) == SelectSeq(Split(s), LAMBDA part : part # <<>>)

\* The while loop of _fix_path_duplications, from index i on.
RECURSIVE DedupFrom(_, _)
DedupFrom(parts, i) ==
    IF i > Len(parts) THEN <<>>
    ELSE <<parts[i]>> \o
         DedupFrom(parts,
                   IF i + 1 <= Len(parts) /\ parts[i + 1] = parts[i]
                   THEN i + 2 ELSE i + 1)

fix_path_duplications(path) ==
    LET normalized_path == RStrip(LStrip(ReplaceBackslash(path), "/"), "/")
        parts == NonEmptyParts(normalized_path)
    IN IF Len(parts) < 2 THEN path
       ELSE <<"/">> \o Join(DedupFrom(parts, 1))

\* project_id = <<>> stands for None (the owner lookup found nothing).
api_normalize_path(path, project_id) ==
    LET decoded_path == replace_unicode_escapes(unquote(path))
        deduplicated == fix_path_duplications(decoded_path)
    IN IF project_id # <<>> THEN wc_normalize_path(deduplicated, project_id)
       ELSE deduplicated

\* ------------------------------------------------------- _LocalFS
IsAbsolute(path) == path # <<>> /\ path[1] = "/"

\* _LocalFS._abs on the root the local handle is built with.
LocalFS_abs(path, project_id) ==
    IF IsAbsolute(path) THEN path
    ELSE get_project_workspace_path(project_id) \o <<"/">> \o path

\* The directories that exist once a local handle was built: the root and
\* the workspace root (LocalProcessSandbox.__post_init__).  write_bytes on
\* one of them raises IsADirectoryError, after the parents were made, and
\* the final rmdir of delete_file on the root raises too.
IsKnownDirectory(abs) ==
    PathResolveSegs(abs) \in {<<>>, PathResolveSegs(WORKSPACE_ROOT)}

\* A path with an embedded NUL is refused by the OS call (ValueError).
OsRefuses(path) == \E i \in 1..Len(path) : path[i] = "NUL"

\* ------------------------------------------------ lifecycle: values
Projects == {"p1", "p2"}
Tools == {"t1", "t2"}

\* Id the platform gives the n-th sandbox it creates.
RemoteId(n) == "s" \o ToString(n)

\* Id of the sandbox recorded for project p before this deployment started.
OldId(p) == "old-" \o p

RemoteIds == {RemoteId(n) : n \in 1..MaxSandboxes} \cup {OldId(p) : p \in Projects}

\* A row of `projects`: exists = FALSE when the select returns no row; id,
\* pass and provider are the keys of the row's `sandbox` dict ("" = absent).
NoRecord == [exists |-> FALSE, id |-> "", pass |-> "", provider |-> ""]
EmptyRecord == [exists |-> TRUE, id |-> "", pass |-> "", provider |-> ""]

\* A handle: the object get_or_start_sandbox returns (for daytona the
\* platform's snapshot of the sandbox, for local a LocalProcessSandbox).
NoHandle == [id |-> "", state |-> "none"]
NoOutcome == [kind |-> "none", error |-> "", handle |-> NoHandle]

\* No delete_sandbox call was made through the delete route yet.
NoDelete == [id |-> "", status |-> 0, again |-> FALSE]

\* No tool instance exists: the lifecycle is not being exercised.
LifecycleIdle ==
    /\ db = [p \in Projects |-> NoRecord]
    /\ remote = [i \in RemoteIds |-> "absent"]
    /\ numCreated = 0
    /\ project = [t \in Tools |-> "p1"]
    /\ sandbox = [t \in Tools |-> NoHandle]
    /\ sandboxId = [t \in Tools |-> ""]
    /\ sandboxPass = [t \in Tools |-> ""]
    /\ pc = [t \in Tools |-> "none"]
    /\ entry = [t \in Tools |-> NoHandle]
    /\ client = [t \in Tools |-> FALSE]
    /\ info = [t \in Tools |-> NoRecord]
    /\ newId = [t \in Tools |-> ""]
    /\ ops = [t \in Tools |-> <<>>]
    /\ outcome = [t \in Tools |-> NoOutcome]
    /\ deleted = {}
    /\ lastDelete = NoDelete

\* ----------------------------------------- pubsub_subscribe_and_listen: values
\* The generator before its first step. Delays are counted in units of
\* initial_backoff's granularity (whole numbers).
NoListener ==
    [pc |-> "none", initial_backoff |-> 0, max_backoff |-> 0, backoff |-> 0,
     pubsub |-> FALSE, unclosed |-> 0, failures |-> 0, slept |-> 0,
     after |-> "none", yielded |-> FALSE]

\* No subscriber is running.
SubIdle ==
    /\ stopEvent = FALSE
    /\ listener = NoListener

\* --------------------------------------------- LocalProcessSandbox: values
\* Coroutines that call exec or run_python on the local sandbox.
Callers == {"c1", "c2"}

\* project_id arguments of run_python.
VenvProjects == {"p1", "p2"}

\* Return codes a subprocess can end with: success, failure, and the code
\* the timeout(1) convention uses, which a command is free to return.
ExitCodes == {0, 1, 124}

\* What a subprocess can have written on its pipes when it ends.
Stdouts == {"", "out"}
Stderrs == {"", "timeout"}

NoExecResult == [code |-> -1, stdout |-> "-", stderr |-> "-"]

\* A caller that has made no call yet.
NoCall ==
    [op |-> "none", pc |-> "idle", n |-> 0, project |-> "", requirements |-> FALSE,
     hangs |-> FALSE,
     inst |-> NoExecResult, script |-> FALSE, started |-> FALSE,
     timedOut |-> FALSE, killed |-> FALSE, raised |-> FALSE,
     result |-> NoExecResult]

\* The local sandbox is not being exercised.
ExecIdle ==
    /\ venvs = {}
    /\ created = [p \in VenvProjects |-> 0]
    /\ call = [c \in Callers |-> NoCall]

\* No step of normalize_path has failed.
NoFault == [step |-> "none", raised |-> FALSE]

\* normalize_path is not being exercised.
NormIdle == normResult = <<>> /\ normFault = NoFault

\* ------------------------------------------------------ _LocalFS: values
\* Local sandbox handles, each built for one project
\* (get_or_start_sandbox(project_id) of the local provider).
Handles == {"h1", "h2"}

HandleProject == [h \in Handles |-> IF h = "h1" THEN <<"p">> ELSE <<"x", "p">>]

\* workspace_root of the handle: `self.root` of its _LocalFS.
HandleRoot(h) == get_project_workspace_path(HandleProject[h])

FsRoots == {HandleRoot(h) : h \in Handles}

\* File and directory names, in the order Path comparison gives them.
Names == {"a", "b"}

NameRank(n) == IF n = "a" THEN 1 ELSE 2

\* Paths relative to a workspace root, as sequences of names; <<>> is the
\* root itself.
FsPaths == UNION {[1..k -> Names] : k \in 0..MaxDepth}

Contents == {"d1", "d2"}

\* What a path holds: nothing, a directory, or a file with its bytes and
\* the handle they were written through.
AbsentNode == [kind |-> "absent", data |-> "", by |-> ""]
DirNode == [kind |-> "dir", data |-> "", by |-> ""]
FileNode(d, h) == [kind |-> "file", data |-> d, by |-> h]

\* The tree LocalProcessSandbox.__post_init__ leaves: the root directory
\* (its .venvs directory is the variable venvs).
EmptyTree == [q \in FsPaths |-> IF q = <<>> THEN DirNode ELSE AbsentNode]

NoFsOp ==
    [op |-> "none", handle |-> "", path |-> <<>>, data |-> "", ok |-> FALSE,
     bytes |-> "", entries |-> {}, removed |-> {}]

\* The file adapter is not being exercised.
FsIdle ==
    /\ disk = [r \in FsRoots |-> EmptyTree]
    /\ fsHandle = [h \in Handles |-> "RUNNING"]
    /\ fsCall = NoFsOp

\* ------------------------------------------------------- path inputs
PathChars == {"/", ".", "w", "p", "x"}

PathStrings == UNION {[1..k -> PathChars] : k \in 0..MaxPathLen}

NoResult == [op |-> "none", value |-> FALSE, path |-> <<>>]

NoApiResult ==
    [route |-> "none", status |-> 0, raised |-> 0, path |-> <<>>,
     fsOp |-> "none", fsPath |-> <<>>]

\* The routes are not being exercised.
ApiIdle ==
    /\ reqPath = <<>>
    /\ reqProject = <<>>
    /\ apiResult = NoApiResult

\* --------------------------------------------- specification SpecPath
InitPath ==
    /\ provider \in Providers
    /\ wcPath \in PathStrings
    /\ wcProject \in ProjectIds
    /\ wcResult = NoResult
    /\ ApiIdle
    /\ LifecycleIdle
    /\ SubIdle
    /\ FsIdle
    /\ NormIdle
    /\ ExecIdle

CallIsPathSafe ==
    /\ wcResult.op = "none"
    /\ wcResult' = [op |-> "is_path_safe", value |-> is_path_safe(wcPath, wcProject),
                    path |-> <<>>]
    /\ UNCHANGED <<provider, wcPath, wcProject, apiVars, lifeVars, subVars, fsVars, normVars, execVars>>

CallResolveAbsolutePath ==
    /\ wcResult.op = "none"
    /\ wcResult' = [op |-> "resolve_absolute_path", value |-> FALSE,
                    path |-> resolve_absolute_path(wcPath, wcProject)]
    /\ UNCHANGED <<provider, wcPath, wcProject, apiVars, lifeVars, subVars, fsVars, normVars, execVars>>

\* SandboxToolsBase.clean_path: normalize_path of the workspace config.
clean_path ==
    /\ wcResult.op = "none"
    /\ wcResult' = [op |-> "clean_path", value |-> FALSE,
                    path |-> wc_normalize_path(wcPath, wcProject)]
    /\ UNCHANGED <<provider, wcPath, wcProject, apiVars, lifeVars, subVars, fsVars, normVars, execVars>>

NextPath == CallIsPathSafe \/ CallResolveAbsolutePath \/ clean_path

SpecPath == InitPath /\ [][NextPath]_vars

\* The canonical path lies in the project directory: it is the directory
\* or one of its descendants (a prefix of whole segments).
InProjectDirectory(path, project_id) ==
    LET target == PathResolveSegs(resolve_absolute_path(path, project_id))
        dir == PathResolveSegs(get_project_directory_path(project_id))
    IN Len(dir) <= Len(target) /\ SubSeq(target, 1, Len(dir)) = dir

\* C1: a path whose canonical form is neither the project directory nor a
\* descendant of it is reported unsafe by is_path_safe.
C1_EscapingPathIsUnsafe ==
    (wcResult.op = "is_path_safe" /\ ~InProjectDirectory(wcPath, wcProject))
    => wcResult.value = FALSE

\* The path's first segment is seg.
FirstSegmentIs(path, seg) ==
    LET parts == NonEmptyParts(path) IN parts # <<>> /\ parts[1] = seg

\* C21: resolve_absolute_path returns the project directory followed by a
\* remainder whose first segment is neither the workspace root's name nor
\* the project id.
C21_ProjectDirNotRepeated ==
    wcResult.op = "resolve_absolute_path"
    => LET dir == get_project_directory_path(wcProject)
           rest == Drop(wcResult.path, Len(dir))
       IN /\ StartsWith(wcResult.path, dir)
          /\ ~FirstSegmentIs(rest, LStrip(WORKSPACE_ROOT, "/"))
          /\ ~FirstSegmentIs(rest, wcProject)

\* C34: normalize_path of the workspace config strips only whole leading
\* segments: a path whose first segment is neither the name of the
\* workspace root nor the project id comes back with its leading slashes
\* removed and nothing else changed; and no result begins with a slash.
C34_OnlyWholeSegmentsStripped ==
    wcResult.op = "clean_path"
    => /\ ~IsAbsolute(wcResult.path)
       /\ (/\ ~FirstSegmentIs(wcPath, LStrip(WORKSPACE_ROOT, "/"))
           /\ ~FirstSegmentIs(wcPath, wcProject))
          => wcResult.path = LStrip(wcPath, "/")

\* ------------------------------------------------------ request inputs
ReqTokens ==
    { <<"/">>, <<".">>, <<".", ".">>, <<"w">>, <<"p">>, <<"x">>,
      <<"%">>, <<"2">>, <<"e">>, <<"\\">>,
      <<"%", "2", "e">>, <<"%", "2", "f">>,
      <<"\\", "u", "0", "0", "2", "e">>, <<"\\", "u", "0", "0", "2", "f">> }

RECURSIVE Flatten(_)
Flatten(ts) == IF ts = <<>> THEN <<>> ELSE ts[1] \o Flatten(Tail(ts))

ReqPaths == {Flatten(ts) : ts \in UNION {[1..k -> ReqTokens] : k \in 0..MaxReqTokens}}

\* ---------------------------------------------- specification SpecApi
\* The file routes of api.py served by a local_process deployment (under
\* daytona the same calls go to the platform's client).  One request per
\* behaviour; the caller has passed verify_sandbox_access.
PathIdle ==
    /\ wcPath = <<>>
    /\ wcProject = <<>>
    /\ wcResult = NoResult

InitApi ==
    /\ provider = "local_process"
    /\ reqPath \in ReqPaths
    /\ reqProject \in ProjectIds
    /\ apiResult = NoApiResult
    /\ PathIdle
    /\ LifecycleIdle
    /\ SubIdle
    /\ FsIdle
    /\ NormIdle
    /\ ExecIdle

\* `except Exception as e: raise HTTPException(status_code=500, ...)`: what
\* the client gets for anything raised inside the try of a handler, an
\* HTTPException with its own status included.  `raised` in the answer is
\* the status the handler raised on purpose (0: none).
WrappedStatus(raised) == 500

\* What a route answers once it has the normalized path: the sandbox is
\* fetched (get_sandbox_by_id_safely) and the filesystem call is issued.
Served(route, fsOp, path, sandboxFound) ==
    IF ~sandboxFound \/ OsRefuses(path)
    THEN [route |-> route, status |-> 500, raised |-> 0, path |-> path,
          fsOp |-> "none", fsPath |-> <<>>]
    ELSE LET abs == LocalFS_abs(path, reqProject) IN
         [route |-> route,
          status |-> IF \/ fsOp = "upload_file" /\ IsKnownDirectory(abs)
                        \/ fsOp = "delete_file" /\ PathResolveSegs(abs) = <<>>
                     THEN 500 ELSE 200,
          raised |-> 0, path |-> path, fsOp |-> fsOp, fsPath |-> abs]

\* POST /sandboxes/{sandbox_id}/files
create_file ==
    /\ apiResult.route = "none"
    /\ \E ownerFound \in BOOLEAN, sandboxFound \in BOOLEAN :
         LET project_id == IF ownerFound THEN reqProject ELSE <<>>
             path == api_normalize_path(reqPath, project_id)
         IN apiResult' = Served("create_file", "upload_file", path, sandboxFound)
    /\ UNCHANGED <<provider, reqPath, reqProject, pathVars, lifeVars, subVars, fsVars, normVars, execVars>>

\* PUT /sandboxes/{sandbox_id}/files
update_file ==
    /\ apiResult.route = "none"
    /\ \E ownerFound \in BOOLEAN, sandboxFound \in BOOLEAN :
         LET project_id == IF ownerFound THEN reqProject ELSE <<>>
             path == api_normalize_path(reqPath, project_id)
         IN apiResult' =
              IF reqPath = <<>>
              THEN [route |-> "update_file", status |-> WrappedStatus(400),
                    raised |-> 400, path |-> <<>>,
                    fsOp |-> "none", fsPath |-> <<>>]
              ELSE Served("update_file", "upload_file", path, sandboxFound)
    /\ UNCHANGED <<provider, reqPath, reqProject, pathVars, lifeVars, subVars, fsVars, normVars, execVars>>

\* DELETE /sandboxes/{sandbox_id}/files
delete_file ==
    /\ apiResult.route = "none"
    /\ \E ownerFound \in BOOLEAN, sandboxFound \in BOOLEAN :
         LET project_id == IF ownerFound THEN reqProject ELSE <<>>
             path == api_normalize_path(reqPath, project_id)
         IN apiResult' = Served("delete_file", "delete_file", path, sandboxFound)
    /\ UNCHANGED <<provider, reqPath, reqProject, pathVars, lifeVars, subVars, fsVars, normVars, execVars>>

\* POST /project/{project_id}/sandbox/ensure-active: the project lookup and
\* the access tests come before the try, the test of the recorded id and
\* get_or_start_sandbox are inside it.
ensure_project_sandbox_active ==
    /\ apiResult.route = "none"
    /\ \E projectFound \in BOOLEAN, refused \in {0, 401, 403},
          idRecorded \in BOOLEAN, started \in BOOLEAN :
         LET answer == [NoApiResult EXCEPT !.route = "ensure_project_sandbox_active"] IN
         apiResult' =
            IF ~projectFound THEN [answer EXCEPT !.status = 404, !.raised = 404]
            ELSE IF refused # 0 THEN [answer EXCEPT !.status = refused, !.raised = refused]
            ELSE IF ~idRecorded
                 THEN [answer EXCEPT !.status = WrappedStatus(404), !.raised = 404]
            ELSE IF ~started THEN [answer EXCEPT !.status = 500]
            ELSE [answer EXCEPT !.status = 200]
    /\ UNCHANGED <<provider, reqPath, reqProject, pathVars, lifeVars, subVars, fsVars, normVars, execVars>>

NextApi == create_file \/ update_file \/ delete_file \/ ensure_project_sandbox_active

SpecApi == InitApi /\ [][NextApi]_vars

\* The file a filesystem call acts on lies in the project directory.
FsTargetInProject ==
    LET target == PathResolveSegs(apiResult.fsPath)
        dir == PathResolveSegs(get_project_directory_path(reqProject))
    IN Len(dir) <= Len(target) /\ SubSeq(target, 1, Len(dir)) = dir

\* C2: no mutating filesystem call driven by a request path is carried out
\* on a path that resolves outside the project directory: a request that a
\* file route answers 200 has written or deleted inside the project only.
C2_NoMutationOutsideProject ==
    (apiResult.status = 200 /\ apiResult.fsOp \in {"upload_file", "delete_file"})
        => FsTargetInProject

\* C2, the case: an upload answered 200 whose file lies outside the project
\* directory.
C2_EscapeReached ==
    /\ apiResult.status = 200
    /\ apiResult.fsOp = "upload_file"
    /\ ~FsTargetInProject

\* C35: the status a handler raises on purpose is the status the client
\* gets: 400 from update_file without a path, 404 from
\* ensure_project_sandbox_active without a recorded sandbox id.
C35_RaisedStatusReachesClient ==
    apiResult.raised # 0 => apiResult.status = apiResult.raised

\* ------------------------------------------ specification Spec: lifecycle
\* Tool instances (SandboxToolsBase) calling _ensure_sandbox, one call at a
\* time per instance, interleaved at the awaits.

\* Rows a project can start with: none, a row with an empty `sandbox`, or a
\* row recorded earlier (its provider tag missing or "daytona").
InitRecords(p) ==
    {NoRecord, EmptyRecord}
    \cup {[exists |-> TRUE, id |-> OldId(p), pass |-> "old-pass", provider |-> tag] :
            tag \in IF provider = "daytona" THEN {"daytona"} ELSE {"", "daytona"}}

Init ==
    /\ provider \in Providers
    /\ project \in {f \in [Tools -> Projects] : f["t1"] = "p1"}
    /\ db \in {f \in [Projects -> UNION {InitRecords(p) : p \in Projects}] :
                \A p \in Projects :
                    /\ f[p] \in InitRecords(p)
                    /\ (\A t \in Tools : project[t] # p) => f[p] = NoRecord}
    /\ remote \in {f \in [RemoteIds -> {"absent", "RUNNING", "STOPPED", "ARCHIVED"}] :
                    \A i \in RemoteIds :
                        IF provider = "daytona" /\ \E p \in Projects : db[p].id = i
                        THEN f[i] # "absent" ELSE f[i] = "absent"}
    /\ numCreated = 0
    /\ sandbox = [t \in Tools |-> NoHandle]
    /\ sandboxId = [t \in Tools |-> ""]
    /\ sandboxPass = [t \in Tools |-> ""]
    /\ pc = [t \in Tools |-> "idle"]
    /\ entry = [t \in Tools |-> NoHandle]
    /\ client = [t \in Tools |-> FALSE]
    /\ info = [t \in Tools |-> NoRecord]
    /\ newId = [t \in Tools |-> ""]
    /\ ops = [t \in Tools |-> <<>>]
    /\ outcome = [t \in Tools |-> NoOutcome]
    /\ deleted = {}
    /\ lastDelete = NoDelete
    /\ PathIdle
    /\ ApiIdle
    /\ NormIdle
    /\ ExecIdle
    /\ FsIdle
    /\ SubIdle

IsLocal == provider = "local_process"

\* The call of t makes one more store or provider call.
Logged(t, op, id, ok) ==
    ops' = [ops EXCEPT ![t] = Append(@, [op |-> op, id |-> id, ok |-> ok])]

\* The call of t raises e to its caller.
Raise(t, e) ==
    /\ pc' = [pc EXCEPT ![t] = "idle"]
    /\ outcome' = [outcome EXCEPT ![t] = [kind |-> "error", error |-> e, handle |-> NoHandle]]

\* The call of t returns handle h to its caller.
Return(t, h) ==
    /\ pc' = [pc EXCEPT ![t] = "idle"]
    /\ outcome' = [outcome EXCEPT ![t] = [kind |-> "ok", error |-> "", handle |-> h]]

Goto(t, label) ==
    /\ pc' = [pc EXCEPT ![t] = label]
    /\ UNCHANGED outcome

\* HasCachedHandle with the cache test lost.
HasCachedHandle_never(t) == FALSE

\* `if self._sandbox is not None`
HasCachedHandle(t) == sandbox[t] # NoHandle

\* NoClientSandboxId with the id create_sandbox falls back to.
NoClientSandboxId_default(project_id) == "default"

\* `self._sandbox_id = self.project_id`, the local branch without a DB
\* client.
NoClientSandboxId(project_id) == project_id

\* _ensure_sandbox up to its first store call: the cached handle is
\* returned at once; otherwise the DB client is awaited (it may be missing
\* or fail, which leaves client = None).
Begin(t) ==
    /\ pc[t] = "idle"
    /\ entry' = [entry EXCEPT ![t] = sandbox[t]]
    /\ ops' = [ops EXCEPT ![t] = <<>>]
    /\ IF HasCachedHandle(t)
       THEN /\ Return(t, sandbox[t])
            /\ UNCHANGED <<client, info, newId, sandboxId, sandboxPass>>
       ELSE \E c \in BOOLEAN :
              /\ client' = [client EXCEPT ![t] = c]
              /\ info' = [info EXCEPT ![t] = NoRecord]
              /\ newId' = [newId EXCEPT ![t] = ""]
              /\ IF c
                 THEN Goto(t, "read") /\ UNCHANGED <<sandboxId, sandboxPass>>
                 ELSE IF IsLocal
                      THEN /\ Goto(t, "get")
                           /\ sandboxId' = [sandboxId EXCEPT ![t] = NoClientSandboxId(project[t])]
                           /\ sandboxPass' = [sandboxPass EXCEPT ![t] = ""]
                      ELSE /\ Raise(t, "RuntimeError")
                           /\ UNCHANGED <<sandboxId, sandboxPass>>
    /\ UNCHANGED <<otherVars, adminVars, storeVars, project, sandbox>>

\* ProjectFound with the empty result taken for a row.
ProjectFound_always(row) == TRUE

\* `if not proj.data` / `if not project.data`
ProjectFound(row) == row.exists

\* MustUpdate that asks for the write whatever the record holds.
MustUpdate_always(row) == TRUE

\* The local branch's must_update.
MustUpdate(row) == row.id = "" \/ row.provider # provider

\* LocalSandboxInfo with the id set whether or not one was recorded.
LocalSandboxInfo_resetsId(row, project_id) ==
    [exists |-> TRUE,
     id |-> project_id,
     pass |-> row.pass,
     provider |-> IF row.provider # provider THEN provider ELSE row.provider]

\* The `sandbox` dict the local branch writes back.
LocalSandboxInfo(row, project_id) ==
    [exists |-> TRUE,
     id |-> IF row.id = "" THEN project_id ELSE row.id,
     pass |-> row.pass,
     provider |-> IF row.provider # provider THEN provider ELSE row.provider]

\* select('*').eq('project_id', ...) and what follows it up to the next await.
ReadRecord(t) ==
    /\ pc[t] = "read"
    /\ Logged(t, "read", "", TRUE)
    /\ LET row == db[project[t]] IN
       /\ info' = [info EXCEPT ![t] = row]
       /\ IF ~ProjectFound(row)
          THEN Raise(t, "NotFound") /\ UNCHANGED <<sandboxId, sandboxPass>>
          ELSE IF IsLocal
               THEN IF MustUpdate(row)
                    THEN Goto(t, "write") /\ UNCHANGED <<sandboxId, sandboxPass>>
                    ELSE /\ Goto(t, "get")
                         /\ sandboxId' = [sandboxId EXCEPT ![t] = row.id]
                         /\ sandboxPass' = [sandboxPass EXCEPT ![t] = row.pass]
               ELSE IF row.id = ""
                    THEN Goto(t, "create") /\ UNCHANGED <<sandboxId, sandboxPass>>
                    ELSE /\ Goto(t, "get")
                         /\ sandboxId' = [sandboxId EXCEPT ![t] = row.id]
                         /\ sandboxPass' = [sandboxPass EXCEPT ![t] = row.pass]
    /\ UNCHANGED <<otherVars, adminVars, storeVars, project, sandbox,
                   entry, client, newId>>

\* Local branch: update({'sandbox': sandbox_info}); its result is not looked
\* at, so a write that matched no row goes on like one that did.
LocalWrite(t) ==
    /\ pc[t] = "write"
    /\ IsLocal
    /\ LET p == project[t]
           written == LocalSandboxInfo(info[t], p)
       IN \E result \in {"data", "nodata", "raise"} :
            /\ Logged(t, "write", written.id, result = "data")
            /\ db' = IF result = "data" THEN [db EXCEPT ![p] = written] ELSE db
            /\ IF result = "raise"
               THEN Raise(t, "StoreError") /\ UNCHANGED <<sandboxId, sandboxPass>>
               ELSE /\ Goto(t, "get")
                    /\ sandboxId' = [sandboxId EXCEPT ![t] = written.id]
                    /\ sandboxPass' = [sandboxPass EXCEPT ![t] = written.pass]
    /\ UNCHANGED <<otherVars, adminVars, remote, numCreated, project,
                   sandbox, entry, client, info, newId>>

\* Local get_or_start_sandbox and the mkdir of the workspace: a new
\* LocalProcessSandbox, born RUNNING.
LocalGetOrStart(t) ==
    /\ pc[t] = "get"
    /\ IsLocal
    /\ Logged(t, "get", sandboxId[t], TRUE)
    /\ LET h == [id |-> sandboxId[t], state |-> "RUNNING"] IN
       /\ sandbox' = [sandbox EXCEPT ![t] = h]
       /\ Return(t, h)
    /\ UNCHANGED <<otherVars, adminVars, storeVars, project, sandboxId,
                   sandboxPass, entry, client, info, newId>>

\* create_sandbox, first half: daytona.create(params).
Create(t) ==
    /\ pc[t] = "create"
    /\ \/ /\ numCreated < MaxSandboxes
          /\ LET id == RemoteId(numCreated + 1) IN
             /\ numCreated' = numCreated + 1
             /\ remote' = [remote EXCEPT ![id] = "RUNNING"]
             /\ newId' = [newId EXCEPT ![t] = id]
             /\ Logged(t, "create", id, TRUE)
             /\ Goto(t, "supervise")
       \/ /\ Logged(t, "create", "", FALSE)
          /\ Raise(t, "ProviderError")
          /\ UNCHANGED <<remote, numCreated, newId>>
    /\ UNCHANGED <<otherVars, adminVars, db, toolVars, entry, client, info>>

\* create_sandbox, second half: start_supervisord_session(sandbox).  Its
\* failure is re-raised through create_sandbox and _ensure_sandbox.
Supervise(t) ==
    /\ pc[t] = "supervise"
    /\ \E ok \in BOOLEAN :
         /\ Logged(t, "create_supervisor", newId[t], ok)
         /\ IF ok THEN Goto(t, "write") ELSE Raise(t, "ProviderError")
    /\ UNCHANGED <<otherVars, adminVars, storeVars, toolVars, entry,
                   client, info, newId>>

\* ShouldCompensate with the test on the result lost.
ShouldCompensate_always(hasData) == TRUE

\* `if not update_result.data`
ShouldCompensate(hasData) == ~hasData

\* Daytona branch: the update that stores the new sandbox's metadata.
RemoteWrite(t) ==
    /\ pc[t] = "write"
    /\ ~IsLocal
    /\ LET p == project[t]
           written == [exists |-> TRUE, id |-> newId[t], pass |-> "uuid-" \o t,
                       provider |-> "daytona"]
       IN \E result \in {"data", "nodata", "raise"} :
            /\ Logged(t, "write", newId[t], result = "data")
            /\ db' = IF result = "data" THEN [db EXCEPT ![p] = written] ELSE db
            /\ IF result = "raise"
               THEN Raise(t, "StoreError") /\ UNCHANGED <<sandboxId, sandboxPass>>
               ELSE IF ShouldCompensate(result = "data")
                    THEN Goto(t, "compensate") /\ UNCHANGED <<sandboxId, sandboxPass>>
                    ELSE /\ Goto(t, "get")
                         /\ sandboxId' = [sandboxId EXCEPT ![t] = newId[t]]
                         /\ sandboxPass' = [sandboxPass EXCEPT ![t] = written.pass]
    /\ UNCHANGED <<otherVars, adminVars, remote, numCreated, project,
                   sandbox, entry, client, info, newId>>

\* CompensationError with the delete's own failure let through.
CompensationError_unmasked(deleteOk) ==
    IF deleteOk THEN "PersistenceError" ELSE "ProviderError"

\* What the caller gets after the compensating delete, whether or not the
\* delete itself raised.
CompensationError(deleteOk) == "PersistenceError"

\* delete_sandbox(sandbox_id) after a write that stored nothing, then the
\* raise of "Database update failed".
Compensate(t) ==
    /\ pc[t] = "compensate"
    /\ \E ok \in BOOLEAN :
         /\ Logged(t, "delete", newId[t], ok)
         /\ remote' = IF ok THEN [remote EXCEPT ![newId[t]] = "DELETED"] ELSE remote
         /\ deleted' = IF ok THEN deleted \cup {newId[t]} ELSE deleted
         /\ Raise(t, CompensationError(ok))
    /\ UNCHANGED <<otherVars, lastDelete, db, numCreated, toolVars,
                   entry, client, info, newId>>

\* daytona.get succeeds on a sandbox the platform holds.
Held(id) == id \in RemoteIds /\ remote[id] \in {"RUNNING", "STOPPED", "ARCHIVED"}

\* NeedsStart with the ARCHIVED state left out of the test.
NeedsStart_stoppedOnly(state) == state = "STOPPED"

\* `if sandbox.state in (SandboxState.ARCHIVED, SandboxState.STOPPED)`
NeedsStart(state) == state \in {"ARCHIVED", "STOPPED"}

\* Daytona get_or_start_sandbox: the first daytona.get.
RemoteGet(t) ==
    /\ pc[t] = "get"
    /\ ~IsLocal
    /\ LET id == sandboxId[t] IN
       \/ /\ Held(id)
          /\ Logged(t, "get", id, TRUE)
          /\ IF NeedsStart(remote[id])
             THEN Goto(t, "start") /\ UNCHANGED sandbox
             ELSE LET h == [id |-> id, state |-> remote[id]] IN
                  /\ sandbox' = [sandbox EXCEPT ![t] = h]
                  /\ Return(t, h)
       \/ /\ Logged(t, "get", id, FALSE)
          /\ Raise(t, "ProviderError")
          /\ UNCHANGED sandbox
    /\ UNCHANGED <<otherVars, adminVars, storeVars, project, sandboxId,
                   sandboxPass, entry, client, info, newId>>

\* daytona.start(sandbox)
RemoteStart(t) ==
    /\ pc[t] = "start"
    /\ LET id == sandboxId[t] IN
       \/ /\ Held(id)
          /\ Logged(t, "start", id, TRUE)
          /\ remote' = [remote EXCEPT ![id] = "RUNNING"]
          /\ Goto(t, "reget")
       \/ /\ Logged(t, "start", id, FALSE)
          /\ Raise(t, "ProviderError")
          /\ UNCHANGED remote
    /\ UNCHANGED <<otherVars, adminVars, db, numCreated, toolVars,
                   entry, client, info, newId>>

\* The second daytona.get, after the start.
RemoteReget(t) ==
    /\ pc[t] = "reget"
    /\ LET id == sandboxId[t] IN
       \/ /\ Held(id)
          /\ Logged(t, "get", id, TRUE)
          /\ Goto(t, "session")
       \/ /\ Logged(t, "get", id, FALSE)
          /\ Raise(t, "ProviderError")
    /\ UNCHANGED <<otherVars, adminVars, storeVars, toolVars, entry,
                   client, info, newId>>

\* start_supervisord_session(sandbox) of get_or_start_sandbox, then the
\* return of the re-fetched sandbox.
RemoteSession(t) ==
    /\ pc[t] = "session"
    /\ LET id == sandboxId[t] IN
       \E ok \in BOOLEAN :
         /\ Logged(t, "start_supervisor", id, ok)
         /\ IF ok /\ Held(id)
            THEN LET h == [id |-> id, state |-> remote[id]] IN
                 /\ sandbox' = [sandbox EXCEPT ![t] = h]
                 /\ Return(t, h)
            ELSE Raise(t, "ProviderError") /\ UNCHANGED sandbox
    /\ UNCHANGED <<otherVars, adminVars, storeVars, project, sandboxId,
                   sandboxPass, entry, client, info, newId>>

\* LocalProcessSandbox.destroy() called on the handle the tool holds.
Destroy(t) ==
    /\ pc[t] = "idle"
    /\ IsLocal
    /\ sandbox[t] # NoHandle
    /\ sandbox' = [sandbox EXCEPT ![t].state = "ARCHIVED"]
    /\ UNCHANGED <<otherVars, adminVars, storeVars, project, sandboxId,
                   sandboxPass, callVars>>

\* Ids the delete route accepts: verify_sandbox_access finds the project
\* whose record holds the id.
OwnedIds == {db[p].id : p \in {q \in Projects : db[q].exists /\ db[q].id # ""}}

\* How delete_sandbox(id) can end.  Local: a no-op that returns True.
\* Daytona: daytona.get then daytona.delete, any exception re-raised; the
\* get of a sandbox the platform no longer holds raises.
DeleteOutcomes(id) ==
    IF IsLocal THEN {"ok"}
    ELSE IF Held(id) THEN {"ok", "raise"} ELSE {"raise"}

\* DELETE /sandboxes/{sandbox_id}: delete_sandbox(sandbox_id), answered 200,
\* or 500 when delete_sandbox raised.  The project record is left as it is.
delete_sandbox_route(id) ==
    /\ id \in OwnedIds
    /\ \E result \in DeleteOutcomes(id) :
         /\ remote' = IF result = "ok" /\ ~IsLocal
                       THEN [remote EXCEPT ![id] = "DELETED"] ELSE remote
         /\ deleted' = IF result = "ok" THEN deleted \cup {id} ELSE deleted
         /\ lastDelete' = [id |-> id,
                           status |-> IF result = "ok" THEN 200 ELSE 500,
                           again |-> id \in deleted]
    /\ UNCHANGED <<otherVars, db, numCreated, toolVars, callVars>>

Next ==
    \/ \E id \in RemoteIds \cup Projects : delete_sandbox_route(id)
    \/ \E t \in Tools :
        \/ Begin(t)
        \/ ReadRecord(t)
        \/ LocalWrite(t)
        \/ LocalGetOrStart(t)
        \/ Create(t)
        \/ Supervise(t)
        \/ RemoteWrite(t)
        \/ Compensate(t)
        \/ RemoteGet(t)
        \/ RemoteStart(t)
        \/ RemoteReget(t)
        \/ RemoteSession(t)
        \/ Destroy(t)

Spec == Init /\ [][Next]_vars

\* --------------------------------------------------- lifecycle claims
Finished(t) == pc[t] = "idle" /\ outcome[t].kind # "none"

\* The call of t has made the call `op`, with result ok.
Did(t, op, ok) == \E i \in 1..Len(ops[t]) : ops[t][i].op = op /\ ops[t][i].ok = ok

Attempted(t, op) == \E i \in 1..Len(ops[t]) : ops[t][i].op = op

\* C3: once a project's record holds a non-empty sandbox id, no later
\* metadata write changes that id to a different value.
C3_IdNeverReassigned ==
    [][\A p \in Projects : db[p].id # "" => db'[p].id = db[p].id]_vars

\* C3 as amended: a call that read a record holding a non-empty sandbox id
\* never changes that id, whatever it writes.
C3_IdKeptByCallThatReadIt ==
    [][\A t \in Tools :
         (info[t].id # "" /\ ops'[t] # ops[t])
             => db'[project[t]].id = db[project[t]].id]_vars

\* C3, the case: a call read a recorded id and wrote the record back.
C3_WroteOverRecordedId ==
    \E t \in Tools :
        /\ info[t].id # ""
        /\ Did(t, "write", TRUE)
        /\ db[project[t]].id = info[t].id

\* C4: when the metadata write fails after the sandbox was created, whether
\* it returns no data or raises, delete_sandbox is attempted on the new id
\* before the error reaches the caller.
C4_DeleteAfterFailedWrite ==
    \A t \in Tools :
        (Finished(t) /\ outcome[t].kind = "error" /\ newId[t] # ""
            /\ Did(t, "write", FALSE))
        => \E i \in 1..Len(ops[t]) : ops[t][i].op = "delete" /\ ops[t][i].id = newId[t]

\* C5: when the supervisor session fails to start after the platform
\* created the sandbox, a compensating delete of that sandbox is attempted,
\* the provider error is raised, and the create is not made again.
C5_DeleteAfterFailedCreate ==
    \A t \in Tools :
        (Finished(t) /\ Did(t, "create_supervisor", FALSE))
        => /\ \E i \in 1..Len(ops[t]) : ops[t][i].op = "delete" /\ ops[t][i].id = newId[t]
           /\ outcome[t] = [kind |-> "error", error |-> "ProviderError", handle |-> NoHandle]
           /\ Cardinality({i \in 1..Len(ops[t]) : ops[t][i].op = "create"}) = 1

\* C6: when the compensating delete itself fails, the caller still gets
\* the metadata-persistence error, never the delete's error.
C6_DeleteFailureNotSurfaced ==
    \A t \in Tools :
        (Finished(t) /\ Did(t, "delete", FALSE))
        => outcome[t] = [kind |-> "error", error |-> "PersistenceError", handle |-> NoHandle]

\* C6, the case: a call ended after its compensating delete failed.
C6_DeleteFailed ==
    \E t \in Tools : Finished(t) /\ Did(t, "delete", FALSE) /\ Did(t, "write", FALSE)

\* C7: a call on an instance that holds a handle returns that very handle
\* (same sandbox id) and makes no store read, no store write and no
\* provider call; a handle once returned stays cached for the later calls.
C7_CachedCallIsNoOp ==
    \A t \in Tools :
        /\ entry[t] # NoHandle
             => /\ pc[t] = "idle"
                /\ ops[t] = <<>>
                /\ outcome[t] = [kind |-> "ok", error |-> "", handle |-> entry[t]]
        /\ outcome[t].kind = "ok"
             => /\ sandbox[t] # NoHandle
                /\ sandbox[t].id = outcome[t].handle.id
                /\ sandboxId[t] = outcome[t].handle.id

\* C7, the case: a second call answered from the cache.
C7_SecondCall ==
    \E t \in Tools : Finished(t) /\ entry[t] # NoHandle /\ outcome[t].kind = "ok"

\* C8: every handle _ensure_sandbox returns is RUNNING when it is returned.
C8_ReturnedHandleRunning ==
    \A t \in Tools :
        (Finished(t) /\ outcome[t].kind = "ok") => outcome[t].handle.state = "RUNNING"

\* What C9 says of a finished call.
NotFoundAndNothingDone(t) ==
    /\ outcome[t] = [kind |-> "error", error |-> "NotFound", handle |-> NoHandle]
    /\ ~Attempted(t, "create")
    /\ ~Attempted(t, "write")
    /\ newId[t] = ""
    /\ sandbox[t] = NoHandle

\* C9: _ensure_sandbox for a project with no metadata record fails with
\* not-found, creates no sandbox, writes no metadata and leaves the handle
\* unset.
C9_NoRecordIsNotFound ==
    \A t \in Tools :
        (Finished(t) /\ ~db[project[t]].exists) => NotFoundAndNothingDone(t)

\* C9 as amended: that holds of every call that got the DB client; without
\* one the record is never read: the local branch returns a handle for the
\* project id and the daytona branch raises a runtime error.
C9_NoRecordIsNotFoundWithClient ==
    \A t \in Tools :
        (Finished(t) /\ ~db[project[t]].exists /\ entry[t] = NoHandle)
        => IF client[t] THEN NotFoundAndNothingDone(t)
           ELSE /\ ~Attempted(t, "read") /\ ~Attempted(t, "write")
                /\ ~Attempted(t, "create")
                /\ IF IsLocal
                   THEN outcome[t].kind = "ok" /\ outcome[t].handle.id = project[t]
                   ELSE outcome[t] = [kind |-> "error", error |-> "RuntimeError",
                                      handle |-> NoHandle]

\* C9, the case: a call read the store and found no row.
C9_ReadFoundNoRow ==
    \E t \in Tools :
        Finished(t) /\ ~db[project[t]].exists /\ client[t] /\ Did(t, "read", TRUE)

\* The call of t created a sandbox and stored its id.
CreatedAndStored(t) ==
    /\ Finished(t)
    /\ newId[t] # ""
    /\ \E i \in 1..Len(ops[t]) :
          ops[t][i].op = "write" /\ ops[t][i].ok /\ ops[t][i].id = newId[t]

\* C28: with the local provider, a call that gets no DB client succeeds:
\* it reads and writes no metadata, creates nothing, takes the project id
\* for the sandbox id and returns, and keeps, a handle with that id.
C28_LocalWithoutClient ==
    \A t \in Tools :
        (Finished(t) /\ IsLocal /\ ~client[t] /\ entry[t] = NoHandle)
        => /\ outcome[t].kind = "ok"
           /\ outcome[t].handle.id = project[t]
           /\ sandboxId[t] = project[t]
           /\ sandbox[t].id = project[t]
           /\ ~Attempted(t, "read") /\ ~Attempted(t, "write")
           /\ ~Attempted(t, "create")
           /\ Attempted(t, "get")

\* C28, the case: such a call has returned for a project that has no
\* metadata record.
C28_ReturnedWithoutClient ==
    \E t \in Tools :
        /\ Finished(t) /\ IsLocal /\ ~client[t] /\ entry[t] = NoHandle
        /\ ~db[project[t]].exists
        /\ outcome[t].kind = "ok"

\* C29: when a call returns a handle, the id of the handle is the sandbox
\* id that the record of its project holds at that moment.
C29_HandleIdIsRecordedId ==
    [][\A t \in Tools :
          (outcome'[t] # outcome[t] /\ outcome'[t].kind = "ok")
          => outcome'[t].handle.id = db'[project[t]].id]_vars

\* C10: when two first-time calls for one project have both created a
\* sandbox and stored its id, the record holds one of the two ids and
\* neither call has deleted a sandbox.
C10_RaceKeepsOneIdDeletesNone ==
    \A t1, t2 \in Tools :
        (t1 # t2 /\ project[t1] = project[t2]
            /\ CreatedAndStored(t1) /\ CreatedAndStored(t2))
        => /\ newId[t1] # newId[t2]
           /\ db[project[t1]].id \in {newId[t1], newId[t2]}
           /\ ~Attempted(t1, "delete") /\ ~Attempted(t2, "delete")
           /\ \A id \in {newId[t1], newId[t2]} \ deleted : remote[id] = "RUNNING"

\* C10, the case: both calls read the record without an id, both created
\* and both stored.
C10_BothCreated ==
    \E t1, t2 \in Tools :
        /\ t1 # t2 /\ project[t1] = project[t2]
        /\ info[t1].id = "" /\ info[t2].id = ""
        /\ CreatedAndStored(t1) /\ CreatedAndStored(t2)
        /\ outcome[t1].kind = "ok" /\ outcome[t2].kind = "ok"

\* C11: _ensure_sandbox never changes a provider tag that a project's
\* record already holds; it writes the tag only when it is missing.
C11_ProviderTagKept ==
    [][\A p \in Projects :
         db[p].provider # "" => db'[p].provider = db[p].provider]_vars

\* C12: delete_sandbox(id) on a sandbox that an earlier delete_sandbox(id)
\* already deleted succeeds, under either provider.
C12_DeleteAgainSucceeds ==
    lastDelete.again => lastDelete.status = 200

\* C13: once delete_sandbox(id) has succeeded, no later _ensure_sandbox
\* returns a handle for that id in state RUNNING.
C13_DeletedIsTerminal ==
    [][\A t \in Tools :
         (outcome'[t] # outcome[t] /\ outcome'[t].kind = "ok"
            /\ outcome'[t].handle.id \in deleted)
         => outcome'[t].handle.state # "RUNNING"]_vars

\* The provider calls get_or_start_sandbox has made in the call of t: the
\* log from the first get on.
GetOrStartOps(t) ==
    LET gets == {i \in 1..Len(ops[t]) : ops[t][i].op = "get"} IN
    IF gets = {} THEN <<>>
    ELSE SubSeq(ops[t], CHOOSE i \in gets : \A j \in gets : i <= j, Len(ops[t]))

RestartOrder == <<"get", "start", "get", "start_supervisor">>

\* The calls are made in the restart order, each at most once, nothing
\* follows a failed one, a failure is raised to the caller, and a handle is
\* returned after the lone get or after all four calls.
RestartShape(t) ==
    LET g == GetOrStartOps(t) IN
    /\ Len(g) <= Len(RestartOrder)
    /\ \A i \in 1..Len(g) :
          /\ g[i].op = RestartOrder[i]
          /\ g[i].id = sandboxId[t]
          /\ i < Len(g) => g[i].ok
    /\ (g # <<>> /\ ~g[Len(g)].ok)
          => outcome[t] = [kind |-> "error", error |-> "ProviderError",
                           handle |-> NoHandle]
    /\ (g # <<>> /\ Finished(t) /\ outcome[t].kind = "ok") => Len(g) \in {1, 4}
    /\ (g # <<>> /\ g[Len(g)].ok /\ Len(g) \in {2, 3}) => pc[t] \in {"reget", "session"}

\* The first get of the call of t: a STOPPED or ARCHIVED sandbox goes on to
\* the start, any other one is returned at once.
FirstGetStep(t) ==
    (pc[t] = "get" /\ ops'[t] # ops[t] /\ ops'[t][Len(ops'[t])].ok)
    => IF remote[sandboxId[t]] \in {"STOPPED", "ARCHIVED"}
       THEN pc'[t] = "start" /\ outcome'[t] = outcome[t]
       ELSE /\ pc'[t] = "idle"
            /\ outcome'[t] = [kind |-> "ok", error |-> "",
                               handle |-> [id |-> sandboxId[t],
                                           state |-> remote[sandboxId[t]]]]

\* C14: the remote get_or_start_sandbox starts a STOPPED or ARCHIVED
\* sandbox exactly once, then fetches it again, then starts the supervisor
\* session exactly once, in that order; for any other fetched state it
\* issues no start and no session command; a failing get, start or
\* session start is raised to the caller and nothing is retried.
C14_RestartInOrder ==
    /\ [](~IsLocal => \A t \in Tools : RestartShape(t))
    /\ [][~IsLocal => \A t \in Tools : FirstGetStep(t)]_vars

\* C14, the case: a call returned a handle after start, re-fetch and
\* session start.
C14_Restarted ==
    \E t \in Tools :
        /\ ~IsLocal /\ Finished(t) /\ outcome[t].kind = "ok"
        /\ Len(GetOrStartOps(t)) = 4

\* The call of t read a record that holds a sandbox id and the tag of the
\* active provider.
ReadCurrentRecord(t) ==
    /\ Finished(t)
    /\ entry[t] = NoHandle
    /\ Did(t, "read", TRUE)
    /\ info[t].exists
    /\ info[t].id # ""
    /\ info[t].provider = provider

\* C30: a call that reads a record holding a sandbox id and the tag of the
\* active provider writes no metadata, creates and deletes no sandbox; all
\* it does after the read is get_or_start_sandbox on the recorded id.
C30_RecordedIdOnlyGot ==
    \A t \in Tools :
        ReadCurrentRecord(t)
        => /\ ~Attempted(t, "write")
           /\ ~Attempted(t, "create")
           /\ ~Attempted(t, "delete")
           /\ sandboxId[t] = info[t].id
           /\ Len(ops[t]) >= 2
           /\ \A i \in 2..Len(ops[t]) :
                 /\ ops[t][i].op \in {RestartOrder[k] : k \in 1..Len(RestartOrder)}
                 /\ ops[t][i].id = info[t].id

\* C30, the case: such a call has returned the handle of the recorded id,
\* with the local provider.
C30_GotRecorded ==
    \E t \in Tools :
        /\ ReadCurrentRecord(t)
        /\ IsLocal
        /\ outcome[t].kind = "ok"
        /\ outcome[t].handle.id = info[t].id

\* C31: between calls, a tool has a cached sandbox id exactly when it has
\* a cached handle.
C31_IdAndHandleSetTogether ==
    \A t \in Tools :
        pc[t] = "idle" => (sandboxId[t] # "" <=> sandbox[t] # NoHandle)

\* ------------------------------------- specification SpecExec: local runs
\* Coroutines of one event loop calling exec and run_python on the local
\* sandbox, interleaved at the awaits.
InitExec ==
    /\ provider = "local_process"
    /\ venvs \in SUBSET VenvProjects
    /\ created = [p \in VenvProjects |-> 0]
    /\ call = [c \in Callers |-> NoCall]
    /\ PathIdle
    /\ ApiIdle
    /\ LifecycleIdle
    /\ SubIdle
    /\ FsIdle
    /\ NormIdle

\* How `await asyncio.wait_for(proc.communicate(), timeout=timeout)` ends:
\* the subprocess finishes in time with a return code and its output, or
\* the timeout elapses first.
ProcessEnds ==
    [timedOut : {FALSE}, code : ExitCodes, out : Stdouts, err : Stderrs]
    \cup {[timedOut |-> TRUE, code |-> 0, out |-> "", err |-> ""]}

\* TimeoutResult with the kill signal reported instead of the reserved code.
TimeoutResult_killSignal == [code |-> -9, stdout |-> "", stderr |-> "timeout"]

\* The dict returned from `except asyncio.TimeoutError`.
TimeoutResult == [code |-> 124, stdout |-> "", stderr |-> "timeout"]

\* What the try/except around wait_for returns.
Communicated(end) ==
    IF end.timedOut THEN TimeoutResult
    ELSE [code |-> end.code, stdout |-> end.out, stderr |-> end.err]

\* A new call of caller c.
NewCall(c, op) == [NoCall EXCEPT !.op = op, !.n = call[c].n + 1]

CanCall(c) == call[c].pc = "idle" /\ call[c].n < MaxCalls

\* WaitEnds without the timeout of wait_for.
WaitEnds_noTimeout(hangs) == {end \in ProcessEnds : ~end.timedOut /\ ~hangs}

\* How `wait_for(proc.communicate(), timeout=timeout)` can end: a command
\* that never finishes ends it by the timeout only.
WaitEnds(hangs) == {end \in ProcessEnds : end.timedOut \/ ~hangs}

\* exec up to its second await: the shell subprocess is created; the
\* command may be one that never finishes.
ExecStart(c) ==
    /\ CanCall(c)
    /\ \E hangs \in BOOLEAN :
         call' = [call EXCEPT ![c] =
                    [NewCall(c, "exec") EXCEPT !.pc = "wait", !.hangs = hangs]]
    /\ UNCHANGED <<provider, pathVars, apiVars, lifeVars, subVars, fsVars, normVars, venvs, created>>

\* exec from the wait_for to its return.
ExecWait(c) ==
    /\ call[c].pc = "wait"
    /\ \E end \in WaitEnds(call[c].hangs) :
         call' = [call EXCEPT ![c] =
                    [@ EXCEPT !.pc = "idle",
                              !.timedOut = end.timedOut,
                              !.killed = end.timedOut,
                              !.result = Communicated(end)]]
    /\ UNCHANGED <<provider, pathVars, apiVars, lifeVars, subVars, fsVars, normVars, venvs, created>>

\* SentinelExists with the test lost.
SentinelExists_never(p) == FALSE

\* `(v / "pyvenv.cfg").exists()`
SentinelExists(p) == p \in venvs

\* InstallFailed with the test lost.
InstallFailed_never(inst) == FALSE

\* `if inst["code"] != 0`
InstallFailed(inst) == inst.code # 0

\* The script file is written and the interpreter is started on it.
ScriptStarted(rec) == [rec EXCEPT !.pc = "script", !.script = TRUE, !.started = TRUE]

\* run_python up to its first await: _ensure_venv (synchronous: the test
\* of the sentinel and EnvBuilder.create run without yielding), the mkdir
\* of the work directory, then the install's subprocess or, without
\* requirements, the script file and the interpreter.  EnvBuilder.create
\* can raise, before or after it wrote pyvenv.cfg.
RunPythonStart(c) ==
    /\ CanCall(c)
    /\ \E p \in VenvProjects, requirements \in BOOLEAN,
          build \in {"ok", "raise_before_cfg", "raise_after_cfg"} :
         LET rec == [NewCall(c, "run_python") EXCEPT
                        !.project = p, !.requirements = requirements]
             builds == ~SentinelExists(p)
             wrote == builds /\ build # "raise_before_cfg"
         IN /\ builds \/ build = "ok"
            /\ venvs' = IF wrote THEN venvs \cup {p} ELSE venvs
            /\ created' = IF wrote THEN [created EXCEPT ![p] = @ + 1] ELSE created
            /\ call' = [call EXCEPT ![c] =
                          IF builds /\ build # "ok" THEN [rec EXCEPT !.raised = TRUE]
                          ELSE IF requirements THEN [rec EXCEPT !.pc = "install"]
                          ELSE ScriptStarted(rec)]
    /\ UNCHANGED <<provider, pathVars, apiVars, lifeVars, subVars, fsVars, normVars>>

\* run_python from the return of the install's exec to its next await.
RunPythonInstall(c) ==
    /\ call[c].pc = "install"
    /\ \E end \in ProcessEnds :
         LET inst == Communicated(end)
             rec == [call[c] EXCEPT !.inst = inst,
                                    !.timedOut = end.timedOut,
                                    !.killed = end.timedOut]
         IN call' = [call EXCEPT ![c] =
                       IF InstallFailed(inst)
                       THEN [rec EXCEPT !.pc = "idle", !.result = inst]
                       ELSE ScriptStarted(rec)]
    /\ UNCHANGED <<provider, pathVars, apiVars, lifeVars, subVars, fsVars, normVars, venvs, created>>

\* run_python from the wait_for on the interpreter to its return.
RunPythonScript(c) ==
    /\ call[c].pc = "script"
    /\ \E end \in ProcessEnds :
         call' = [call EXCEPT ![c] =
                    [@ EXCEPT !.pc = "idle",
                              !.timedOut = end.timedOut,
                              !.killed = end.timedOut,
                              !.result = Communicated(end)]]
    /\ UNCHANGED <<provider, pathVars, apiVars, lifeVars, subVars, fsVars, normVars, venvs, created>>

NextExec ==
    \E c \in Callers :
        \/ ExecStart(c)
        \/ ExecWait(c)
        \/ RunPythonStart(c)
        \/ RunPythonInstall(c)
        \/ RunPythonScript(c)

SpecExec == InitExec /\ [][NextExec]_vars

\* The exec calls alone. The event loop runs every task that is ready: a
\* wait_for whose timeout can elapse does not stay pending.
NextExecOnly == \E c \in Callers : ExecStart(c) \/ ExecWait(c)

SpecExecFair ==
    InitExec /\ [][NextExecOnly]_vars /\ \A c \in Callers : WF_vars(ExecWait(c))

\* The call of c has returned a result to its caller.
Returned(c) == call[c].op # "none" /\ call[c].pc = "idle" /\ ~call[c].raised

\* C15: a call whose subprocess had not finished when the timeout elapsed
\* has killed it and returns code 124, empty stdout and stderr "timeout",
\* raising nothing.
C15_TimeoutIsResult ==
    \A c \in Callers :
        call[c].timedOut
        => /\ Returned(c)
           /\ call[c].killed
           /\ call[c].result = [code |-> 124, stdout |-> "", stderr |-> "timeout"]

\* C15, the case: an exec and a run_python have each timed out.
C15_TimedOut ==
    \E c1, c2 \in Callers :
        /\ call[c1].op = "exec" /\ call[c1].timedOut
        /\ call[c2].op = "run_python" /\ call[c2].timedOut /\ call[c2].started

\* C16: a result has code 124 if and only if the call timed out.
C16_Code124IffTimeout ==
    \A c \in Callers :
        Returned(c) => (call[c].result.code = 124 <=> call[c].timedOut)

\* C17: the venv of a project is created at most once, and only by a call
\* that found the sentinel pyvenv.cfg missing.
C17_VenvCreatedOnce ==
    /\ [](\A p \in VenvProjects : created[p] <= 1)
    /\ [][\A p \in VenvProjects : created'[p] # created[p] => p \notin venvs]_vars

\* C17, the case: two run_python calls for one project are in flight
\* together after the venv was created.
C17_ConcurrentRuns ==
    \E p \in VenvProjects :
        /\ created[p] = 1
        /\ \A c \in Callers :
              /\ call[c].op = "run_python" /\ call[c].project = p
              /\ call[c].pc \in {"install", "script"}

\* C18: after an install that returned a non-zero code the call has
\* returned the installer's result, wrote no script and started no
\* interpreter; a script is run only without requirements or after an
\* install that returned zero.
C18_FailedInstallShortCircuits ==
    \A c \in Callers :
        /\ (call[c].requirements /\ call[c].inst # NoExecResult /\ call[c].inst.code # 0)
             => /\ Returned(c)
                /\ call[c].result = call[c].inst
                /\ ~call[c].script /\ ~call[c].started
        /\ call[c].started
             => /\ call[c].script
                /\ ~call[c].requirements \/ call[c].inst.code = 0

\* C18, the case: an install that timed out ended the call.
C18_InstallTimedOut ==
    \E c \in Callers :
        /\ Returned(c) /\ call[c].requirements
        /\ call[c].inst = [code |-> 124, stdout |-> "", stderr |-> "timeout"]

\* C32: every exec call that is waiting for its subprocess returns in the
\* end, with the exit code and output of the subprocess or with the timeout
\* result; a command that never finishes returns the timeout result.
C32_ExecReturns ==
    \A c \in Callers : \A h \in BOOLEAN :
        (call[c].op = "exec" /\ call[c].pc = "wait" /\ call[c].hangs = h)
        ~> (/\ Returned(c)
            /\ call[c].op = "exec"
            /\ call[c].result # NoExecResult
            /\ call[c].timedOut <=> call[c].result = TimeoutResult /\ call[c].killed
            /\ h => call[c].timedOut)

\* C32, the case: an exec of a command that never finishes has returned.
C32_HangingExecReturned ==
    \E c \in Callers :
        /\ Returned(c)
        /\ call[c].op = "exec"
        /\ call[c].hangs
        /\ call[c].result = TimeoutResult

\* ------------------------------- specification SpecNorm: normalize_path
\* api.normalize_path applied to a request path, then to its own result.
Segments == {<<"x">>, <<"p">>, <<"w">>}

\* Paths of up to MaxSegments plain segments.
SegPaths == {Join(segs) : segs \in UNION {[1..k -> Segments] : k \in 1..MaxSegments}}

InitNorm ==
    /\ provider \in Providers
    /\ reqPath \in ReqPaths \cup SegPaths
    /\ reqProject \in ProjectIds \cup {<<>>}
    /\ apiResult = NoApiResult
    /\ normResult = <<>>
    /\ normFault = NoFault
    /\ PathIdle
    /\ LifecycleIdle
    /\ SubIdle
    /\ FsIdle
    /\ ExecIdle

\* normalize_path(path, project_id), on the request path at first and on
\* the path it returned from then on.
normalize_path ==
    /\ Len(normResult) < 2
    /\ LET path == IF normResult = <<>> THEN reqPath ELSE normResult[Len(normResult)]
       IN normResult' = Append(normResult, api_normalize_path(path, reqProject))
    /\ UNCHANGED <<provider, pathVars, apiVars, lifeVars, subVars, fsVars, execVars, normFault>>

NextNorm == normalize_path

SpecNorm == InitNorm /\ [][NextNorm]_vars

\* C19: normalizing a normalized path gives the same path.
C19_NormalizeIdempotent ==
    Len(normResult) = 2 => normResult[2] = normResult[1]

\* No segment of the path is followed by an identical segment (a
\* backslash separates segments as a slash does).
NoRepeatedSegment(path) ==
    LET parts == NonEmptyParts(ReplaceBackslash(path)) IN
    \A i \in 1..(Len(parts) - 1) : parts[i + 1] # parts[i]

\* C20: a normalized path holds no segment immediately followed by an
\* identical segment.
C20_NoAdjacentDuplicate ==
    normResult # <<>> => NoRepeatedSegment(normResult[1])

\* C33: _fix_path_duplications keeps the form of the path: what it returns
\* begins with a slash exactly when the path it was given does (seen on
\* requests without a project, where its result is what normalize_path
\* returns).
C33_LeadingSlashKept ==
    (normResult # <<>> /\ reqProject = <<>>)
    => (IsAbsolute(normResult[1])
        <=> IsAbsolute(replace_unicode_escapes(unquote(reqPath))))

\* ------------------- specification SpecNormFault: normalize_path failing
\* normalize_path with one of its steps raising an exception.
GuardedSteps == {"unquote", "unicode", "dedup", "workspace"}

\* The except clause that takes the exception of a step: the innermost
\* try around it.
HandlerOf(step) ==
    CASE step = "unquote" -> "outer"
      [] step = "unicode" -> "unicode_err"
      [] step = "dedup" -> "fix_path_duplications"
      [] step = "workspace" -> "norm_err"

\* NormalizeUnder giving back the original path whatever step failed.
NormalizeUnder_originalOnFailure(path, project_id, step) ==
    IF step = "none" THEN api_normalize_path(path, project_id) ELSE path

\* What normalize_path returns when `step` raises ("none": no step does).
\* The outer handler returns the original path; the handler of the
\* unicode step and the one of the workspace step log and go on with
\* decoded_path as it stands; _fix_path_duplications returns the path it
\* was given.
NormalizeUnder(path, project_id, step) ==
    IF step # "none" /\ HandlerOf(step) = "outer" THEN path
    ELSE LET unquoted == unquote(path)
             decoded == IF step = "unicode" THEN unquoted
                        ELSE replace_unicode_escapes(unquoted)
             deduplicated == IF step = "dedup" THEN decoded
                             ELSE fix_path_duplications(decoded)
         IN IF project_id # <<>> /\ step # "workspace"
            THEN wc_normalize_path(deduplicated, project_id)
            ELSE deduplicated

InitNormFault ==
    /\ provider = "local_process"
    /\ reqPath \in ReqPaths
    /\ reqProject \in ProjectIds \cup {<<>>}
    /\ apiResult = NoApiResult
    /\ normResult = <<>>
    /\ normFault = NoFault
    /\ PathIdle
    /\ LifecycleIdle
    /\ SubIdle
    /\ FsIdle
    /\ ExecIdle

\* normalize_path(path, project_id) with the step `step` raising.
normalize_path_failing ==
    /\ normResult = <<>>
    /\ \E step \in GuardedSteps :
         /\ step = "workspace" => reqProject # <<>>
         /\ normResult' = <<NormalizeUnder(reqPath, reqProject, step)>>
         /\ normFault' = [step |-> step, raised |-> HandlerOf(step) = "none"]
    /\ UNCHANGED <<provider, pathVars, apiVars, lifeVars, subVars, fsVars, execVars>>

NextNormFault == normalize_path_failing

SpecNormFault == InitNormFault /\ [][NextNormFault]_vars

IsPrefix(p, q) == Len(p) <= Len(q) /\ SubSeq(q, 1, Len(p)) = p

Parent(p) == SubSeq(p, 1, Len(p) - 1)

\* p and the directories above it, up to the root.
Ancestors(p) == {SubSeq(p, 1, k) : k \in 0..Len(p)}

\* basep.iterdir()
Children(T, p) ==
    {q \in FsPaths : Len(q) = Len(p) + 1 /\ IsPrefix(p, q) /\ T[q].kind # "absent"}

\* p.rglob("*")
Descendants(T, p) ==
    {q \in FsPaths : Len(q) > Len(p) /\ IsPrefix(p, q) /\ T[q].kind # "absent"}

Present(T) == {q \in FsPaths \ {<<>>} : T[q].kind # "absent"}

\* Mkdir that makes no missing parent.
Mkdir_noParents(T, p) ==
    LET can == /\ T[p].kind # "file"
               /\ p = <<>> \/ T[Parent(p)].kind = "dir"
    IN [ok |-> can, tree |-> IF can THEN [T EXCEPT ![p] = DirNode] ELSE T]

\* p.mkdir(parents=True, exist_ok=True): raises when p or a directory
\* above it is a file.
Mkdir(T, p) ==
    LET blocked == \E q \in Ancestors(p) : T[q].kind = "file"
    IN [ok |-> ~blocked,
        tree |-> IF blocked THEN T
                 ELSE [q \in FsPaths |-> IF q \in Ancestors(p) THEN DirNode ELSE T[q]]]

\* upload_file: the parent is made, then write_bytes, which raises on a
\* directory.
Upload(T, p, d, h) ==
    LET made == IF p = <<>> THEN [ok |-> TRUE, tree |-> T] ELSE Mkdir(T, Parent(p))
    IN IF ~made.ok THEN [ok |-> FALSE, tree |-> T]
       ELSE IF made.tree[p].kind = "dir" THEN [ok |-> FALSE, tree |-> made.tree]
       ELSE [ok |-> TRUE, tree |-> [made.tree EXCEPT ![p] = FileNode(d, h)]]

\* Path comparison: part by part, a path before the paths below it.
RECURSIVE PathLess(_, _)
PathLess(p, q) ==
    IF p = <<>> THEN q # <<>>
    ELSE IF q = <<>> THEN FALSE
    ELSE IF p[1] = q[1] THEN PathLess(Tail(p), Tail(q))
    ELSE NameRank(p[1]) < NameRank(q[1])

RECURSIVE Sorted(_)
Sorted(S) ==
    IF S = {} THEN <<>>
    ELSE LET least == CHOOSE x \in S : \A y \in S \ {x} : PathLess(x, y)
         IN <<least>> \o Sorted(S \ {least})

Reversed(seq) == [i \in 1..Len(seq) |-> seq[Len(seq) + 1 - i]]

\* DeleteOrder without the reversal.
DeleteOrder_ascending(S) == Sorted(S)

\* sorted(p.rglob("*"), reverse=True)
DeleteOrder(S) == Reversed(Sorted(S))

\* q.rmdir(): raises on a directory that is not empty.
Rmdir(T, q) ==
    IF Children(T, q) # {} THEN [ok |-> FALSE, tree |-> T]
    ELSE [ok |-> TRUE, tree |-> [T EXCEPT ![q] = AbsentNode]]

\* The second loop of delete_file: rmdir of each directory, in order.
RECURSIVE RmdirAll(_, _)
RmdirAll(T, order) ==
    IF order = <<>> THEN [ok |-> TRUE, tree |-> T]
    ELSE LET r == Rmdir(T, order[1]) IN
         IF r.ok THEN RmdirAll(r.tree, Tail(order)) ELSE r

\* delete_file: on a directory, unlink of every file below it, rmdir of
\* every directory below it, rmdir of the directory; otherwise
\* unlink(missing_ok=True).
Delete(T, p) ==
    IF T[p].kind = "dir"
    THEN LET below == Descendants(T, p)
             unlinked == [q \in FsPaths |->
                            IF q \in below /\ T[q].kind = "file" THEN AbsentNode
                            ELSE T[q]]
             r == RmdirAll(unlinked, DeleteOrder(Descendants(unlinked, p)))
         IN IF r.ok THEN Rmdir(r.tree, p) ELSE r
    ELSE [ok |-> TRUE, tree |-> [T EXCEPT ![p] = AbsentNode]]

\* ListedUnder going down the whole tree.
ListedUnder_recursive(T, p) == Descendants(T, p)

\* The paths list_files makes an entry for.
ListedUnder(T, p) == Children(T, p)

\* A fresh workspace; the virtual environments of earlier runs may be there.
InitFs ==
    /\ provider = "local_process"
    /\ disk = [r \in FsRoots |-> EmptyTree]
    /\ fsHandle = [h \in Handles |-> "RUNNING"]
    /\ fsCall = NoFsOp
    /\ venvs \in {{}, VenvProjects}
    /\ created = [p \in VenvProjects |-> 0]
    /\ call = [c \in Callers |-> NoCall]
    /\ PathIdle
    /\ ApiIdle
    /\ LifecycleIdle
    /\ SubIdle
    /\ NormIdle

Called(op, h, p) == [NoFsOp EXCEPT !.op = op, !.handle = h, !.path = p]

upload_file(h, p, d) ==
    LET r == Upload(disk[HandleRoot(h)], p, d, h) IN
    /\ Cardinality(Present(r.tree)) <= MaxEntries
    /\ disk' = [disk EXCEPT ![HandleRoot(h)] = r.tree]
    /\ fsCall' = [Called("upload_file", h, p) EXCEPT !.data = d, !.ok = r.ok]
    /\ UNCHANGED <<provider, pathVars, apiVars, lifeVars, subVars, normVars, execVars, fsHandle>>

download_file(h, p) ==
    LET node == disk[HandleRoot(h)][p] IN
    /\ fsCall' = [Called("download_file", h, p) EXCEPT
                  !.ok = node.kind = "file",
                  !.bytes = IF node.kind = "file" THEN node.data ELSE ""]
    /\ UNCHANGED <<provider, pathVars, apiVars, lifeVars, subVars, normVars, execVars,
                   disk, fsHandle>>

\* create_folder: mkdir(parents=True, exist_ok=True), then chmod.
create_folder(h, p) ==
    LET r == Mkdir(disk[HandleRoot(h)], p) IN
    /\ Cardinality(Present(r.tree)) <= MaxEntries
    /\ disk' = [disk EXCEPT ![HandleRoot(h)] = r.tree]
    /\ fsCall' = [Called("create_folder", h, p) EXCEPT !.ok = r.ok]
    /\ UNCHANGED <<provider, pathVars, apiVars, lifeVars, subVars, normVars, execVars, fsHandle>>

\* list_files: [] for a path that does not exist, one _FileInfo for each
\* path iterdir gives; iterdir raises on a file.
list_files(h, p) ==
    LET T == disk[HandleRoot(h)] IN
    /\ fsCall' = [Called("list_files", h, p) EXCEPT
                  !.ok = T[p].kind # "file",
                  !.entries = IF T[p].kind = "dir"
                              THEN {[path |-> q, is_dir |-> T[q].kind = "dir"] :
                                       q \in ListedUnder(T, p)}
                              ELSE {}]
    /\ UNCHANGED <<provider, pathVars, apiVars, lifeVars, subVars, normVars, execVars,
                   disk, fsHandle>>

fs_delete_file(h, p) ==
    LET T == disk[HandleRoot(h)]
        r == Delete(T, p)
    IN /\ disk' = [disk EXCEPT ![HandleRoot(h)] = r.tree]
       /\ fsCall' = [Called("delete_file", h, p) EXCEPT
                     !.ok = r.ok,
                     !.removed = {q \in FsPaths : T[q].kind # "absent"
                                                  /\ r.tree[q].kind = "absent"}]
       /\ UNCHANGED <<provider, pathVars, apiVars, lifeVars, subVars, normVars, execVars, fsHandle>>

\* DestroyedState taken for a deletion.
DestroyedState_deleted == "DELETED"

\* `self.state = "ARCHIVED"`
DestroyedState == "ARCHIVED"

\* LocalProcessSandbox.destroy()
destroy(h) ==
    /\ fsHandle' = [fsHandle EXCEPT ![h] = DestroyedState]
    /\ fsCall' = [Called("destroy", h, <<>>) EXCEPT !.ok = TRUE]
    /\ UNCHANGED <<provider, pathVars, apiVars, lifeVars, subVars, normVars, execVars, disk>>

\* The file calls of one handle.
NextFs ==
    LET h == "h1" IN
        \/ \E p \in FsPaths, d \in Contents : upload_file(h, p, d)
        \/ \E p \in FsPaths : download_file(h, p)
        \/ \E p \in FsPaths : create_folder(h, p)
        \/ \E p \in FsPaths : list_files(h, p)
        \/ \E p \in FsPaths : fs_delete_file(h, p)
        \/ destroy(h)

SpecFs == InitFs /\ [][NextFs]_vars

\* The step is a call of op.
FsStep(op) == fsCall'.op = op /\ <<disk, fsHandle, fsCall>>' # <<disk, fsHandle, fsCall>>

\* Nothing stands in the way of writing a file at p: p is no directory and
\* no directory above p is a file.
Writable(T, p) ==
    /\ T[p].kind # "dir"
    /\ \A q \in Ancestors(p) \ {p} : T[q].kind # "file"

\* C23 as stated, for every path: a download_file that follows an
\* upload_file of the same path returns the uploaded bytes.
C23_UploadThenDownload ==
    [][(/\ fsCall.op = "upload_file"
        /\ FsStep("download_file")
        /\ fsCall'.handle = fsCall.handle
        /\ fsCall'.path = fsCall.path)
       => fsCall'.ok /\ fsCall'.bytes = fsCall.data]_vars

\* C23, amended: upload_file succeeds on every path that is no directory
\* and has no file above it; a successful upload_file leaves a file with
\* exactly the uploaded bytes at the path, whatever was there, a directory
\* at every path above it, and every other path as it was; a download_file
\* that follows it on the same path returns exactly those bytes.
C23_RoundTrip ==
    [][/\ FsStep("upload_file") =>
            LET T == disk[HandleRoot(fsCall'.handle)]
                U == disk'[HandleRoot(fsCall'.handle)]
                p == fsCall'.path
            IN /\ Writable(T, p) => fsCall'.ok
               /\ fsCall'.ok =>
                    /\ U[p].kind = "file" /\ U[p].data = fsCall'.data
                    /\ \A q \in Ancestors(p) \ {p} : U[q].kind = "dir"
                    /\ \A q \in FsPaths \ Ancestors(p) : U[q] = T[q]
       /\ (/\ fsCall.op = "upload_file" /\ fsCall.ok
           /\ FsStep("download_file")
           /\ fsCall'.handle = fsCall.handle
           /\ fsCall'.path = fsCall.path)
          => fsCall'.ok /\ fsCall'.bytes = fsCall.data]_vars

\* A file two directories down has been read back.
C23_ReadBack ==
    /\ fsCall.op = "download_file"
    /\ fsCall.ok
    /\ Len(fsCall.path) >= 2
    /\ fsCall.bytes = "d2"

\* C24: delete_file on a directory succeeds whatever files and directories
\* are nested in it, removes the directory and everything below it and
\* nothing else, so that the listing of its parent has no entry for it;
\* delete_file on a file removes that file and nothing else.
C24_DeleteRemovesTree ==
    [][FsStep("delete_file") =>
        LET T == disk[HandleRoot(fsCall'.handle)]
            U == disk'[HandleRoot(fsCall'.handle)]
            p == fsCall'.path
        IN /\ T[p].kind = "dir" =>
                /\ fsCall'.ok
                /\ \A q \in FsPaths :
                      U[q] = IF IsPrefix(p, q) THEN AbsentNode ELSE T[q]
                /\ p # <<>> => p \notin ListedUnder(U, Parent(p))
                /\ fsCall'.removed = {p} \cup Descendants(T, p)
           /\ T[p].kind = "file" =>
                /\ fsCall'.ok
                /\ U = [T EXCEPT ![p] = AbsentNode]
                /\ fsCall'.removed = {p}]_vars

\* A directory holding a directory that holds something has been deleted.
C24_NestedDeleted ==
    /\ fsCall.op = "delete_file"
    /\ fsCall.ok
    /\ \E q \in fsCall.removed : Len(q) >= Len(fsCall.path) + 2

\* The direct children of p: what exists exactly one level below it.
DirectChildren(T, p) ==
    {q \in FsPaths \ {<<>>} : Parent(q) = p /\ T[q].kind # "absent"}

\* C25: list_files on a directory returns exactly one entry for each
\* direct child of the path, and none for anything deeper; on a path that
\* does not exist it returns the empty list without raising.
C25_ListsDirectChildren ==
    fsCall.op = "list_files"
    => LET T == disk[HandleRoot(fsCall.handle)]
           p == fsCall.path
       IN /\ T[p].kind = "absent" => fsCall.ok /\ fsCall.entries = {}
          /\ T[p].kind = "dir" =>
                /\ fsCall.ok
                /\ {e.path : e \in fsCall.entries} = DirectChildren(T, p)
                /\ Cardinality(fsCall.entries) = Cardinality(DirectChildren(T, p))
                /\ \A e \in fsCall.entries : e.is_dir = (T[e.path].kind = "dir")

\* A directory has been listed that holds a directory that is not empty.
C25_ListedAboveNested ==
    /\ fsCall.op = "list_files"
    /\ fsCall.ok
    /\ fsCall.entries # {}
    /\ Descendants(disk[HandleRoot(fsCall.handle)], fsCall.path)
         # DirectChildren(disk[HandleRoot(fsCall.handle)], fsCall.path)

\* A path that does not exist has been listed.
C25_ListedMissing ==
    /\ fsCall.op = "list_files"
    /\ disk[HandleRoot(fsCall.handle)][fsCall.path].kind = "absent"

\* C26: destroy() sets the state of the handle to ARCHIVED and returns
\* true, and changes no file or directory of the workspace, no virtual
\* environment, and no other handle.
C26_DestroyOnlyArchives ==
    [][FsStep("destroy") =>
        /\ fsCall'.ok
        /\ fsHandle' = [fsHandle EXCEPT ![fsCall'.handle] = "ARCHIVED"]
        /\ disk' = disk
        /\ venvs' = venvs]_vars

\* A handle has been destroyed whose workspace holds a file below a
\* directory, and virtual environments.
C26_DestroyedWithFiles ==
    /\ fsCall.op = "destroy"
    /\ fsCall.ok
    /\ fsHandle[fsCall.handle] = "ARCHIVED"
    /\ venvs # {}
    /\ \E q \in FsPaths :
         Len(q) >= 2 /\ disk[HandleRoot(fsCall.handle)][q].kind = "file"

\* ------------------------------- specification SpecShare: two projects
\* Files written and read through the handles of two projects.
NextShare ==
    \E h \in Handles :
        \/ \E p \in FsPaths, d \in Contents : upload_file(h, p, d)
        \/ \E p \in FsPaths : download_file(h, p)

SpecShare == InitFs /\ [][NextShare]_vars

\* C27: with the local provider, what download_file returns through the
\* handle of a project was written through the handle of that project:
\* a file written through the handle of one project is not readable
\* through the handle of another at the same relative path.
C27_NoCrossProjectRead ==
    (fsCall.op = "download_file" /\ fsCall.ok)
    => disk[HandleRoot(fsCall.handle)][fsCall.path].by = fsCall.handle

\* ------------------- specification SpecSub: pubsub_subscribe_and_listen
\* One run of the generator: the steps between its awaits, the answers of
\* the Redis client, the messages that arrive, and stop_event being set by
\* its owner.
Min(a, b) == IF a <= b THEN a ELSE b

RECURSIVE Doubled(_, _)
Doubled(x, n) == IF n = 0 THEN x ELSE Doubled(2 * x, n - 1)

\* The arguments: 0 < initial_backoff <= max_backoff.
InitSub ==
    /\ provider = "local_process"
    /\ stopEvent = FALSE
    /\ \E ib \in 1..2, mb \in 1..MaxBackoff :
         /\ ib <= mb
         /\ listener = [NoListener EXCEPT !.pc = "loop", !.initial_backoff = ib,
                                          !.max_backoff = mb, !.backoff = ib]
    /\ PathIdle
    /\ ApiIdle
    /\ LifecycleIdle
    /\ NormIdle
    /\ ExecIdle
    /\ FsIdle

SubFrame == UNCHANGED <<provider, pathVars, apiVars, lifeVars, normVars, execVars, fsVars>>

\* The owner sets stop_event.
SetStop ==
    /\ listener.pc \notin {"none", "done"}
    /\ ~stopEvent
    /\ stopEvent' = TRUE
    /\ UNCHANGED listener
    /\ SubFrame

\* `while not stop_event.is_set():` of the outer loop, and `pubsub = None`.
OuterTest ==
    /\ listener.pc = "loop"
    /\ listener' = IF stopEvent THEN [listener EXCEPT !.pc = "done"]
                   ELSE [listener EXCEPT !.pc = "connect", !.pubsub = FALSE]
    /\ UNCHANGED stopEvent
    /\ SubFrame

\* `pubsub = await create_pubsub()`: a connection object, or an exception.
Connect ==
    /\ listener.pc = "connect"
    /\ \E ok \in BOOLEAN :
         /\ ~ok => listener.failures < MaxFailures
         /\ listener' = IF ok
                        THEN [listener EXCEPT !.pc = "subscribe", !.pubsub = TRUE,
                                              !.unclosed = @ + 1]
                        ELSE [listener EXCEPT !.pc = "sleep"]
    /\ UNCHANGED stopEvent
    /\ SubFrame

\* `await pubsub.subscribe(*channels)`, then the first listener task.
Subscribe ==
    /\ listener.pc = "subscribe"
    /\ \E ok \in BOOLEAN :
         /\ ~ok => listener.failures < MaxFailures
         /\ listener' = [listener EXCEPT !.pc = IF ok THEN "inner" ELSE "sleep"]
    /\ UNCHANGED stopEvent
    /\ SubFrame

\* `while not stop_event.is_set():` of the inner loop; leaving it ends the
\* try without an exception.
InnerTest ==
    /\ listener.pc = "inner"
    /\ listener' = IF stopEvent
                   THEN [listener EXCEPT !.pc = "cleanup", !.after = "reset"]
                   ELSE [listener EXCEPT !.pc = "wait"]
    /\ UNCHANGED stopEvent
    /\ SubFrame

\* What ends `await asyncio.wait([next_msg_task], ...)`: the listener task
\* alone (no timeout is given and stop_event is not waited on), with a
\* message, another reply, the end of the stream or an error.
TaskResults == {"message", "other", "closed", "error"}

\* asyncio.wait returns and the result of the task is looked at: a message
\* is yielded, the end of the stream or an error leaves the inner loop,
\* anything else goes on to the ping.
TaskDone ==
    /\ listener.pc = "wait"
    /\ \E raw \in TaskResults :
         listener' =
            CASE raw = "message" -> [listener EXCEPT !.pc = "yield", !.yielded = TRUE]
              [] raw = "other" -> [listener EXCEPT !.pc = "ping"]
              [] OTHER -> [listener EXCEPT !.pc = "cleanup", !.after = "reset"]
    /\ UNCHANGED stopEvent
    /\ SubFrame

\* The consumer asks for the next message: the generator goes on after its
\* yield.
Resume ==
    /\ listener.pc = "yield"
    /\ listener' = [listener EXCEPT !.pc = "ping"]
    /\ UNCHANGED stopEvent
    /\ SubFrame

\* The periodic ping: not due, sent, or failed, which leaves the inner loop.
Ping ==
    /\ listener.pc = "ping"
    /\ \E due \in BOOLEAN, ok \in BOOLEAN :
         listener' = IF due /\ ~ok
                     THEN [listener EXCEPT !.pc = "cleanup", !.after = "reset"]
                     ELSE [listener EXCEPT !.pc = "inner"]
    /\ UNCHANGED stopEvent
    /\ SubFrame

\* NextBackoff without the cap.
NextBackoff_uncapped(backoff, max_backoff) == backoff * 2

\* `backoff = min(backoff * 2, max_backoff)`
NextBackoff(backoff, max_backoff) == Min(backoff * 2, max_backoff)

\* The except clause: `await asyncio.sleep(backoff)`, the new backoff,
\* `continue`, which passes through the finally clause.
Sleep ==
    /\ listener.pc = "sleep"
    /\ listener' = [listener EXCEPT
                      !.pc = "cleanup",
                      !.after = "continue",
                      !.slept = listener.backoff,
                      !.failures = @ + 1,
                      !.backoff = NextBackoff(@, listener.max_backoff)]
    /\ UNCHANGED stopEvent
    /\ SubFrame

\* Cleanup that leaves the connection as it is.
Cleaned_nothing(unclosed, pubsub) == unclosed

\* The finally clause: a connection that was made is unsubscribed and
\* closed, whatever unsubscribe raises. Gives the connections left open.
Cleaned(unclosed, pubsub) == IF pubsub THEN unclosed - 1 ELSE unclosed

\* The finally clause, then what follows the try: `backoff =
\* initial_backoff` when it ended without an exception, the next turn of
\* the outer loop either way.
Cleanup ==
    /\ listener.pc = "cleanup"
    /\ listener' = [listener EXCEPT
                      !.pc = "loop",
                      !.unclosed = Cleaned(@, listener.pubsub),
                      !.after = "none",
                      !.backoff = IF listener.after = "reset"
                                  THEN listener.initial_backoff ELSE @,
                      !.failures = IF listener.after = "reset" THEN 0 ELSE @]
    /\ UNCHANGED stopEvent
    /\ SubFrame

NextSub ==
    \/ SetStop
    \/ OuterTest
    \/ Connect
    \/ Subscribe
    \/ InnerTest
    \/ TaskDone
    \/ Resume
    \/ Ping
    \/ Sleep
    \/ Cleanup

SpecSub == InitSub /\ [][NextSub]_vars

\* The event loop runs the generator whenever it can go on, and its
\* consumer keeps asking for the next message; whether a message, the end
\* of the stream or an error ever arrives is up to the server.
SpecSubFair ==
    /\ SpecSub
    /\ WF_vars(OuterTest) /\ WF_vars(Connect) /\ WF_vars(Subscribe)
    /\ WF_vars(InnerTest) /\ WF_vars(Resume) /\ WF_vars(Ping)
    /\ WF_vars(Sleep) /\ WF_vars(Cleanup)

\* C36: the reconnect delay lies between initial_backoff and max_backoff;
\* it is initial_backoff doubled once for each failed attempt in a row,
\* capped at max_backoff, and initial_backoff again after a cycle that
\* ended without raising; a connection is opened only when every earlier
\* one has been unsubscribed and closed, and none is left open at the end.
C36_BackoffAndCleanup ==
    listener.pc # "none"
    => /\ listener.initial_backoff <= listener.backoff
       /\ listener.backoff <= listener.max_backoff
       /\ listener.backoff
            = Min(Doubled(listener.initial_backoff, listener.failures),
                  listener.max_backoff)
       /\ listener.slept # 0 =>
            /\ listener.initial_backoff <= listener.slept
            /\ listener.slept <= listener.max_backoff
       /\ listener.unclosed <= 1
       /\ listener.pc \in {"loop", "connect", "done"} => listener.unclosed = 0

\* C36, the case: after failed attempts in a row the delay has reached the
\* cap, the failed connection is closed and the next one is about to be
\* opened.
C36_CappedAfterFailures ==
    /\ listener.pc = "connect"
    /\ listener.failures >= 2
    /\ listener.backoff = listener.max_backoff
    /\ listener.slept < listener.backoff
    /\ listener.slept > listener.initial_backoff

====
